---- MODULE Spec2Model ----
(***************************************************************************)
(* Model of the template resolver of busoc/prospect (package prospect):    *)
(* Pattern.Set / ParseResolver / parse / parseResolver compile a template  *)
(* into a tree of Resolver nodes, and the nodes' Resolve methods evaluate  *)
(* the tree against a Data record.                                         *)
(*                                                                         *)
(* A Go string is a sequence of one-character strings.  A Go call either   *)
(* returns or panics; a result is a record whose kind is "ok", "err" (a    *)
(* returned error) or "panic" (a run-time panic: index out of range, nil   *)
(* dereference).                                                           *)
(***************************************************************************)
EXTENDS Integers, Sequences, FiniteSets, TLC

\* ------------------------------------------------------------ strings

Digits == <<"0", "1", "2", "3", "4", "5", "6", "7", "8", "9">>

LowerCase == <<"a", "b", "c", "d", "e", "f", "g", "h", "i", "j", "k", "l", "m",
               "n", "o", "p", "q", "r", "s", "t", "u", "v", "w", "x", "y", "z">>

UpperCase == <<"A", "B", "C", "D", "E", "F", "G", "H", "I", "J", "K", "L", "M",
               "N", "O", "P", "Q", "R", "S", "T", "U", "V", "W", "X", "Y", "Z">>

PosIn(c, tab) == CHOOSE i \in 1..Len(tab) : tab[i] = c

IsIn(c, tab) == \E i \in 1..Len(tab) : tab[i] = c

\* s[a:b] of Go, for 0 <= a <= b <= len(s)
Slice(s, a, b) == SubSeq(s, a + 1, b)

\* strings.IndexByte: 0-based position of the first c in s, or -1
IndexByte(s, c) ==
    IF \E i \in 1..Len(s) : s[i] = c
    THEN (CHOOSE i \in 1..Len(s) : s[i] = c /\ \A j \in 1..(i - 1) : s[j] # c) - 1
    ELSE -1

\* strings.Trim(s, "/")
RECURSIVE TrimLeft(_)
TrimLeft(s) == IF s # <<>> /\ Head(s) = "/" THEN TrimLeft(Tail(s)) ELSE s

RECURSIVE TrimRight(_)
TrimRight(s) ==
    IF s # <<>> /\ s[Len(s)] = "/" THEN TrimRight(SubSeq(s, 1, Len(s) - 1)) ELSE s

Trim(s) == TrimRight(TrimLeft(s))

\* strings.TrimPrefix(s, "/")
TrimPrefix(s) == IF s # <<>> /\ Head(s) = "/" THEN Tail(s) ELSE s

\* strings.Split(s, "/"): always at least one element
RECURSIVE Split(_)
Split(s) ==
    LET i == IndexByte(s, "/")
    IN IF i < 0 THEN <<s>> ELSE <<Slice(s, 0, i)>> \o Split(Slice(s, i + 1, Len(s)))

\* strings.Join(elems, "/")
RECURSIVE JoinSep(_)
JoinSep(elems) ==
    IF elems = <<>> THEN <<>>
    ELSE IF Len(elems) = 1 THEN elems[1]
    ELSE elems[1] \o <<"/">> \o JoinSep(Tail(elems))

RECURSIVE Concat(_)
Concat(elems) == IF elems = <<>> THEN <<>> ELSE Head(elems) \o Concat(Tail(elems))

\* strconv.Itoa
RECURSIVE NatStr(_)
NatStr(n) ==
    IF n < 10 THEN <<Digits[n + 1]>> ELSE NatStr(n \div 10) \o <<Digits[(n % 10) + 1]>>

Itoa(n) == IF n < 0 THEN <<"-">> \o NatStr(-n) ELSE NatStr(n)

\* fmt.Sprintf("%0<w>d", n)
RECURSIVE PadLeft(_, _)
PadLeft(s, w) == IF Len(s) >= w THEN s ELSE PadLeft(<<"0">> \o s, w)

Sprintf0(w, n) == IF n < 0 THEN <<"-">> \o PadLeft(NatStr(-n), w - 1) ELSE PadLeft(NatStr(n), w)

\* strconv.Atoi: an optional sign and one or more decimal digits (the range
\* error of a number beyond 64 bits needs a text longer than any here)
RECURSIVE DigitsVal(_, _)
DigitsVal(s, acc) ==
    IF s = <<>> THEN acc ELSE DigitsVal(Tail(s), acc * 10 + (PosIn(Head(s), Digits) - 1))

Atoi(s) ==
    LET body == IF s # <<>> /\ Head(s) \in {"+", "-"} THEN Tail(s) ELSE s
    IN IF body = <<>> \/ \E i \in 1..Len(body) : ~IsIn(body[i], Digits)
       THEN [kind |-> "err", msg |-> "invalid syntax"]
       ELSE [kind |-> "ok",
             n |-> IF Head(s) = "-" THEN -DigitsVal(body, 0) ELSE DigitsVal(body, 0)]

\* strings.ToLower
ToLower(s) ==
    [i \in 1..Len(s) |-> IF IsIn(s[i], UpperCase) THEN LowerCase[PosIn(s[i], UpperCase)] ELSE s[i]]

IsLetterOrDigit(c) == IsIn(c, LowerCase) \/ IsIn(c, UpperCase) \/ IsIn(c, Digits) \/ c = "_"

\* strings.Title: the first letter of every word in upper case
Title(s) ==
    [i \in 1..Len(s) |->
        IF (i = 1 \/ ~IsLetterOrDigit(s[i - 1])) /\ IsIn(s[i], LowerCase)
        THEN UpperCase[PosIn(s[i], LowerCase)] ELSE s[i]]

\* strings.ReplaceAll(s, " ", "")
RemoveSpaces(s) == SelectSeq(s, LAMBDA c : c # " ")

\* ------------------------------------------------------ path/filepath

\* filepath.Clean, by components: empty and "." components vanish, ".."
\* removes the component before it, is dropped at the root and is kept at
\* the start of a relative path; the empty result is "."
RECURSIVE CleanStack(_, _, _)
CleanStack(comps, stack, rooted) ==
    IF comps = <<>> THEN stack
    ELSE LET c == Head(comps)
         IN IF c = <<>> \/ c = <<".">> THEN CleanStack(Tail(comps), stack, rooted)
            ELSE IF c = <<".", ".">>
            THEN IF stack # <<>> /\ stack[Len(stack)] # <<".", ".">>
                 THEN CleanStack(Tail(comps), SubSeq(stack, 1, Len(stack) - 1), rooted)
                 ELSE IF rooted THEN CleanStack(Tail(comps), stack, rooted)
                 ELSE CleanStack(Tail(comps), Append(stack, c), rooted)
            ELSE CleanStack(Tail(comps), Append(stack, c), rooted)

Clean(path) ==
    IF path = <<>> THEN <<".">>
    ELSE LET rooted == Head(path) = "/"
             out    == (IF rooted THEN <<"/">> ELSE <<>>)
                       \o JoinSep(CleanStack(Split(path), <<>>, rooted))
         IN IF out = <<>> THEN <<".">> ELSE out

\* filepath.Dir: Clean of the path up to its last separator
LastSep(path) ==
    IF \E i \in 1..Len(path) : path[i] = "/"
    THEN CHOOSE i \in 1..Len(path) : path[i] = "/" /\ \A j \in (i + 1)..Len(path) : path[j] # "/"
    ELSE 0

Dir(path) == Clean(SubSeq(path, 1, LastSep(path)))

\* filepath.Join: "" when every element is empty, else Clean of the elements
\* from the first non-empty one on, joined with "/"
RECURSIVE Join(_)
Join(elems) ==
    IF elems = <<>> THEN <<>>
    ELSE IF Head(elems) # <<>> THEN Clean(JoinSep(elems))
    ELSE Join(Tail(elems))

\* ---------------------------------------------------------- the nodes

Nil == [type |-> "nil"]

empty == [type |-> "empty"]

path(rs) == [type |-> "path", rs |-> rs]

literal(str) == [type |-> "literal", str |-> str]

index(n) == [type |-> "index", index |-> n]

slice(begin, end) == [type |-> "slice", begin |-> begin, end |-> end]

fragment(name) == [type |-> "fragment", name |-> name]

compound(rs) == [type |-> "compound", rs |-> rs]

Ok(r) == [kind |-> "ok", r |-> r]

Err(msg) == [kind |-> "err", msg |-> msg]

Panic == [kind |-> "panic"]

lcurly == "{"

rcurly == "}"

colon == ":"

levelLevel == <<"l", "e", "v", "e", "l">>

levelSource == <<"s", "o", "u", "r", "c", "e">>

levelModel == <<"m", "o", "d", "e", "l">>

levelMime == <<"m", "i", "m", "e">>

levelFormat == <<"f", "o", "r", "m", "a", "t">>

levelType == <<"t", "y", "p", "e">>

levelRun == <<"r", "u", "n">>

levelYear == <<"y", "e", "a", "r">>

levelDoy == <<"d", "o", "y">>

levelMonth == <<"m", "o", "n", "t", "h">>

levelDay == <<"d", "a", "y">>

levelHour == <<"h", "o", "u", "r">>

levelMinLong == <<"m", "i", "n", "u", "t", "e">>

levelMinShort == <<"m", "i", "n">>

levelSecLong == <<"s", "e", "c", "o", "n", "d">>

levelSecShort == <<"s", "e", "c">>

levelStamp == <<"t", "i", "m", "e", "s", "t", "a", "m", "p">>

\* ---------------------------------------------------------- the parser

isNumber(char) == IsIn(char, Digits)

isSign(char) == char = "-"

\* the text of one placeholder; str[0] of the empty text panics
parseResolver(str) ==
    IF str = <<>> THEN Panic
    ELSE IF ~(isNumber(str[1]) \/ isSign(str[1])) THEN Ok(fragment(str))
    ELSE LET x == IndexByte(str, colon)
         IN IF x < 0
            THEN LET i == Atoi(str)
                 IN IF i.kind = "ok" THEN Ok(index(i.n)) ELSE Err(i.msg)
            ELSE LET b == Atoi(Slice(str, 0, x))
                     e == Atoi(Slice(str, x + 1, Len(str)))
                 IN IF b.kind # "ok" THEN Err(b.msg)
                    ELSE IF e.kind # "ok" THEN Err(e.msg)
                    ELSE Ok(slice(b.n, e.n))

\* the end of parse: the text after the last placeholder, then one node or a
\* compound
parseFinish(str, offset, rs) ==
    LET rest == Slice(str, offset, Len(str))
        all  == IF Len(rest) > 0 THEN Append(rs, literal(rest)) ELSE rs
    IN IF Len(all) = 1 THEN Ok(all[1]) ELSE Ok(compound(all))

\* the loop of parse; end is counted from the '{', start from offset
RECURSIVE parseLoop(_, _, _)
parseLoop(str, offset, rs) ==
    IF ~(offset < Len(str)) THEN parseFinish(str, offset, rs)
    ELSE LET start == IndexByte(Slice(str, offset, Len(str)), lcurly)
         IN IF start < 0 THEN parseFinish(str, offset, rs)
            ELSE LET end == IndexByte(Slice(str, offset + start, Len(str)), rcurly)
                 IN IF end < 0 THEN Err("missing closing brace")
                    ELSE IF end - start = 1 THEN Err("empty placeholder")
                    ELSE LET q    == Slice(str, offset, offset + start)
                             rs1  == IF Len(q) > 0 THEN Append(rs, literal(q)) ELSE rs
                             off1 == offset + start + 1
                             r    == parseResolver(Slice(str, off1, off1 + end - 1))
                         IN IF r.kind # "ok" THEN r
                            ELSE parseLoop(str, off1 + end, Append(rs1, r.r))

parse(str) == parseLoop(str, 0, <<>>)

RECURSIVE parseParts(_, _)
parseParts(parts, rs) ==
    IF parts = <<>> THEN Ok(path(rs))
    ELSE LET r == parse(Head(parts))
         IN IF r.kind # "ok" THEN r ELSE parseParts(Tail(parts), Append(rs, r.r))

ParseResolver(str) ==
    IF str = <<>> THEN Ok(empty) ELSE parseParts(Split(Trim(str)), <<>>)

\* ------------------------------------------------------- the resolvers

\* the directory segments index and slice address
Segments(file) == Split(TrimPrefix(Dir(file)))

\* xs[i.index] of a negative index panics
indexResolve(i, dat) ==
    LET xs == Segments(dat.File)
    IN IF i.index < Len(xs)
       THEN IF i.index < 0 THEN Panic ELSE Ok(xs[i.index + 1])
       ELSE Ok(<<>>)

\* normalize without the wrap of a negative bound
normalizeNoWrap(idx, size) ==
    IF idx < 0 THEN 0 ELSE IF idx >= size THEN size ELSE idx

normalize(idx, size) ==
    LET i1 == IF idx < 0 THEN size + idx ELSE idx
    IN IF i1 < 0 THEN 0 ELSE IF i1 >= size THEN size ELSE i1

\* xs[begin] with begin = len(xs) panics
sliceResolve(i, dat) ==
    LET xs    == Segments(dat.File)
        begin == normalize(i.begin, Len(xs))
        end   == normalize(i.end, Len(xs))
    IN IF end = begin
       THEN IF begin >= Len(xs) THEN Panic ELSE Ok(xs[begin + 1])
       ELSE IF end > begin THEN Ok(Join(SubSeq(xs, begin + 1, end)))
       ELSE Ok(<<>>)

splitMime(mime) ==
    LET ix == IndexByte(mime, "/")
        m1 == IF ix >= 0 /\ ix + 1 < Len(mime) THEN Slice(mime, ix + 1, Len(mime)) ELSE mime
        iy == IndexByte(m1, ";")
    IN IF iy >= 0 THEN Slice(m1, 0, iy) ELSE m1

replace(str) == RemoveSpaces(Title(str))

\* the default case of fragment.Resolve: the segments are those of the
\* placeholder's own name, and xs[x] of a negative x panics
fragmentDefault(f) ==
    LET x == Atoi(f.name)
    IN IF x.kind # "ok" THEN Ok(<<>>)
       ELSE LET xs == Split(TrimPrefix(Dir(f.name)))
                x1 == x.n - 1
            IN IF x1 < Len(xs)
               THEN IF x1 < 0 THEN Panic ELSE Ok(xs[x1 + 1])
               ELSE Ok(<<>>)

fragmentResolve(f, dat) ==
    LET name == ToLower(f.name)
    IN CASE name = levelRun -> Ok(dat.Source)
         [] name = levelLevel -> Ok(Itoa(dat.Level))
         [] name = levelSource -> Ok(replace(dat.Source))
         [] name = levelModel -> Ok(replace(dat.Model))
         [] name \in {levelMime, levelFormat} -> Ok(replace(splitMime(dat.Mime)))
         [] name = levelType -> Ok(replace(dat.Type))
         [] name = levelYear -> Ok(Itoa(dat.AcqTime.Year))
         [] name = levelDoy -> Ok(Sprintf0(3, dat.AcqTime.YearDay))
         [] name = levelMonth -> Ok(Sprintf0(2, dat.AcqTime.Month))
         [] name = levelDay -> Ok(Sprintf0(2, dat.AcqTime.Day))
         [] name = levelHour -> Ok(Sprintf0(2, dat.AcqTime.Hour))
         [] name \in {levelMinShort, levelMinLong} -> Ok(Sprintf0(2, dat.AcqTime.Minute))
         [] name \in {levelSecShort, levelSecLong} -> Ok(Sprintf0(2, dat.AcqTime.Second))
         [] name = levelStamp -> Ok(Itoa(dat.AcqTime.Unix))
         [] OTHER -> fragmentDefault(f)

literalResolve(i) == Ok(i.str)

emptyResolve == Ok(<<>>)

\* a leaf node (a placeholder or a literal)
leafResolve(r, dat) ==
    CASE r.type = "literal" -> literalResolve(r)
      [] r.type = "index" -> indexResolve(r, dat)
      [] r.type = "slice" -> sliceResolve(r, dat)
      [] r.type = "fragment" -> fragmentResolve(r, dat)
      [] r.type = "empty" -> emptyResolve

\* compound.Resolve: the children's strings written to one buffer in
\* order; a child's panic ends the call
RECURSIVE compoundLoop(_, _, _)
compoundLoop(rs, dat, buf) ==
    IF rs = <<>> THEN Ok(buf)
    ELSE LET r == leafResolve(Head(rs), dat)
         IN IF r.kind # "ok" THEN Panic ELSE compoundLoop(Tail(rs), dat, buf \o r.r)

compoundResolve(c, dat) == compoundLoop(c.rs, dat, <<>>)

\* one component of a path: what parse returns
componentResolve(r, dat) ==
    IF r.type = "compound" THEN compoundResolve(r, dat) ELSE leafResolve(r, dat)

\* path.Resolve: str[j] = p.rs[j].Resolve(dat), then filepath.Join(str...)
RECURSIVE pathLoop(_, _, _)
pathLoop(rs, dat, str) ==
    IF rs = <<>> THEN Ok(str)
    ELSE LET r == componentResolve(Head(rs), dat)
         IN IF r.kind # "ok" THEN Panic ELSE pathLoop(Tail(rs), dat, Append(str, r.r))

\* path.Resolve that writes the strings one after the other, as compound does
pathResolveNoSeparator(p, dat) ==
    LET str == pathLoop(p.rs, dat, <<>>)
    IN IF str.kind # "ok" THEN Panic ELSE Ok(Concat(str.r))

pathResolve(p, dat) ==
    LET str == pathLoop(p.rs, dat, <<>>)
    IN IF str.kind # "ok" THEN Panic ELSE Ok(Join(str.r))

\* Resolver.Resolve, by the node's type
Resolve(r, dat) ==
    CASE r.type = "path" -> pathResolve(r, dat)
      [] OTHER -> componentResolve(r, dat)

\* Pattern.Resolve is the embedded Resolver's method: a nil interface
\* panics
PatternResolve(p, dat) == IF p = Nil THEN Panic ELSE Resolve(p, dat)

\* Pattern.Set without the test of err: the tree is assigned whatever the
\* parser returned
PatternSetUnchecked(held, s) ==
    LET r == ParseResolver(s)
    IN IF r.kind = "ok" THEN [p |-> r.r, ret |-> [kind |-> "ok"]]
       ELSE IF r.kind = "err" THEN [p |-> Nil, ret |-> r]
       ELSE [p |-> held, ret |-> r]

\* Pattern.Set: the tree is replaced only when ParseResolver returns no
\* error; a panic of the parser leaves the call before the assignment
PatternSet(held, s) ==
    LET r == ParseResolver(s)
    IN IF r.kind = "ok" THEN [p |-> r.r, ret |-> [kind |-> "ok"]]
       ELSE [p |-> held, ret |-> r]

\* ------------------------------------------------------------- inputs

MaxTplLen == 6

MaxIdx == 4

MaxSegs == 3

MaxComps == 2

BaseTime ==
    [Year |-> 2024, YearDay |-> 65, Month |-> 3, Day |-> 5, Hour |-> 7,
     Minute |-> 8, Second |-> 9, Unix |-> 1709622489]

BaseData ==
    [Source |-> <<"m", "a", "i", "n", " ", "u", "n", "i", "t">>,
     Model |-> <<"f", "m">>,
     Mime |-> <<"t", "e", "x", "t", "/", "p", "l", "a", "i", "n", ";", "q">>,
     Type |-> <<"r", "a", "w">>,
     Level |-> 1,
     AcqTime |-> BaseTime,
     File |-> <<"/", "a", "/", "b", "/", "c", "/", "d", ".", "d", "a", "t">>]

SparseData ==
    [Source |-> <<>>, Model |-> <<>>, Mime |-> <<>>, Type |-> <<>>, Level |-> 0,
     AcqTime |-> [Year |-> 1970, YearDay |-> 1, Month |-> 1, Day |-> 1, Hour |-> 0,
                  Minute |-> 0, Second |-> 0, Unix |-> 0],
     File |-> <<>>]

WithFile(f) == [BaseData EXCEPT !.File = f]

\* the records of the life cycle and of the multi-component templates
SmallRecords ==
    {BaseData, SparseData,
     WithFile(<<"d">>), WithFile(<<"/", "d">>),
     WithFile(<<".", ".", "/", "a", "/", "d">>)}

\* file paths of up to MaxSegs directory segments, rooted or not
SegNames == {<<"a">>, <<"b">>, <<".", ".">>}

SegSeqs == UNION {[1..n -> SegNames] : n \in 0..MaxSegs}

Files ==
    {(IF segs = <<>> THEN <<>> ELSE JoinSep(segs) \o <<"/">>) \o <<"d">> : segs \in SegSeqs}
    \cup {<<"/">> \o (IF segs = <<>> THEN <<>> ELSE JoinSep(segs) \o <<"/">>) \o <<"d">> : segs \in SegSeqs}

FileRecords == {WithFile(f) : f \in Files}

Braced(t) == <<"{">> \o t \o <<"}">>

\* the positional templates {n} and {a:b}
PosTemplates ==
    {Braced(Itoa(n)) : n \in (-MaxIdx)..MaxIdx}
    \cup {Braced(Itoa(a) \o <<":">> \o Itoa(b)) : a, b \in (-MaxIdx)..MaxIdx}

Keywords ==
    {levelLevel, levelSource, levelModel, levelMime, levelFormat, levelType, levelRun,
     levelYear, levelDoy, levelMonth, levelDay, levelHour, levelMinLong, levelMinShort,
     levelSecLong, levelSecShort, levelStamp}

\* the keyword templates, an unknown keyword, and signed numbers that reach
\* the default case of fragment.Resolve
FragTemplates ==
    {Braced(k) : k \in Keywords}
    \cup {Braced(<<"Y", "e", "a", "r">>), Braced(<<"b", "o", "g", "u", "s">>),
          Braced(<<"+", "0">>), Braced(<<"+", "1">>), Braced(<<"+", "2">>)}

\* the components of the multi-component templates
Comps ==
    {<<"a">>, <<".">>, <<".", ".">>, Braced(<<"0">>), Braced(<<"1", ":", "3">>),
     Braced(<<"9">>), Braced(<<"b", "o", "g", "u", "s">>),
     <<"x">> \o Braced(levelDoy) \o <<"-">> \o Braced(<<"1">>)}

PathTemplates == {JoinSep(cs) : cs \in UNION {[1..n -> Comps] : n \in 1..MaxComps}}

ResolveInputs ==
    (PosTemplates \X FileRecords)
    \cup ((PathTemplates \cup FragTemplates) \X SmallRecords)

\* every string of up to MaxTplLen characters of the template grammar
TplChars == {"a", "{", "}", "-", "1", ":", "/"}

ParseInputs == UNION {[1..n -> TplChars] : n \in 0..MaxTplLen}

\* the templates of the life cycle: some parse, some return an error, one
\* panics
LifeTemplates ==
    {<<>>, Braced(<<"0">>), Braced(<<"1", ":", "3">>), Braced(<<>>), <<"{", "a", "b", "c">>,
     Braced(<<"1", "x">>), <<"a">> \o Braced(<<>>), <<"a">> \o Braced(<<"x">>),
     Braced(levelYear) \o <<"/">> \o Braced(levelDoy), <<"a", "/", "b">>}

\* ------------------------------------------------------ state machine

VARIABLES
    p,      \* Pattern.Resolver: the held tree, Nil before the first good Set
    op,     \* the last call: "new", "arg", "Set" or "Resolve"
    str,    \* the template of the last Set
    dat,    \* the record of the last Resolve
    ret     \* what the last call returned, or that it panicked

vars == <<p, op, str, dat, ret>>

NoRet == [kind |-> "none"]

\* p.Set(s); a panic ends the program
Set(s) ==
    /\ ret.kind # "panic"
    /\ LET r == PatternSet(p, s)
       IN /\ p' = r.p
          /\ ret' = r.ret
    /\ op' = "Set"
    /\ str' = s
    /\ UNCHANGED dat

\* p.Resolve(d)
ResolveRec(d) ==
    /\ ret.kind # "panic"
    /\ ret' = PatternResolve(p, d)
    /\ op' = "Resolve"
    /\ dat' = d
    /\ UNCHANGED <<p, str>>

\* the life cycle of one Pattern: any sequence of Set and Resolve
Init ==
    /\ p = Nil
    /\ op = "new"
    /\ str = <<>>
    /\ dat = SparseData
    /\ ret = NoRet

SetAny == \E s \in LifeTemplates : Set(s)

ResolveAny == \E d \in SmallRecords : ResolveRec(d)

Next == SetAny \/ ResolveAny

Spec == Init /\ [][Next]_vars

\* ParseResolver on every short string: a new Pattern configured once
InitParse ==
    /\ p = Nil
    /\ op = "arg"
    /\ str \in ParseInputs
    /\ dat = SparseData
    /\ ret = NoRet

SetArg == op = "arg" /\ Set(str)

NextParse == SetArg

SpecParse == InitParse /\ [][NextParse]_vars

\* configure once, then resolve one record
InitResolve ==
    /\ p = Nil
    /\ op = "arg"
    /\ \E in \in ResolveInputs : str = in[1] /\ dat = in[2]
    /\ ret = NoRet

ResolveArg == op = "Set" /\ ret.kind = "ok" /\ ResolveRec(dat)

NextResolve == SetArg \/ ResolveArg

SpecResolve == InitResolve /\ [][NextResolve]_vars

\* ----------------------------------------------------- Pattern (Spec)

\* C1: after every Set the Pattern holds the tree of the most recent
\* template that parsed: a Set whose parse succeeds installs the new tree,
\* a Set whose parse returns an error returns that error and leaves the
\* held tree, and so what every record resolves to, as it was.
C1_SetKeepsLastGoodTree ==
    [][op' = "Set" =>
          LET r == ParseResolver(str')
          IN /\ r.kind = "ok" => p' = r.r /\ ret'.kind = "ok"
             /\ r.kind = "err" =>
                   /\ ret' = r
                   /\ p' = p
                   /\ \A d \in SmallRecords : PatternResolve(p', d) = PatternResolve(p, d)]_vars

\* a failed Set on a Pattern that holds a tree from an earlier Set
C1_Witness ==
    /\ op = "Set"
    /\ ret.kind = "err"
    /\ str = Braced(<<>>)
    /\ p = path(<<slice(1, 3)>>)

\* C3: a Pattern on which no template was ever successfully configured
\* resolves every record to the empty string.
C3_UnsetResolvesEmpty == (op = "Resolve" /\ p = Nil) => ret = Ok(<<>>)

\* ------------------------------------------------- parser (SpecParse)

\* The parts of one template component as the grammar reads them: the text
\* before a '{' is a literal, the text strictly between a '{' and the next
\* '}' is a placeholder, and a '{' with no '}' after it is left open.
RECURSIVE Parts(_)
Parts(s) ==
    LET i == IndexByte(s, "{")
    IN IF i < 0 THEN (IF s = <<>> THEN <<>> ELSE <<[k |-> "lit", t |-> s]>>)
       ELSE LET after == Slice(s, i + 1, Len(s))
                j     == IndexByte(after, "}")
                lit   == IF i > 0 THEN <<[k |-> "lit", t |-> Slice(s, 0, i)]>> ELSE <<>>
            IN IF j < 0 THEN lit \o <<[k |-> "open", t |-> after]>>
               ELSE lit \o <<[k |-> "ph", t |-> Slice(after, 0, j)]>>
                        \o Parts(Slice(after, j + 1, Len(after)))

Components(s) == Split(Trim(s))

NumericText(t) == t # <<>> /\ (IsIn(t[1], Digits) \/ t[1] = "-")

SignedInt(t) == Atoi(t).kind = "ok"

\* a signed integer, or two signed integers separated by one ':'
ValidNumeric(t) ==
    LET x == IndexByte(t, ":")
    IN IF x < 0 THEN SignedInt(t)
       ELSE SignedInt(Slice(t, 0, x)) /\ SignedInt(Slice(t, x + 1, Len(t)))

HasEmptyPlaceholder(s) ==
    \E c \in 1..Len(Components(s)) :
        \E i \in 1..Len(Parts(Components(s)[c])) :
            Parts(Components(s)[c])[i] = [k |-> "ph", t |-> <<>>]

HasMalformedNumeric(s) ==
    \E c \in 1..Len(Components(s)) :
        \E i \in 1..Len(Parts(Components(s)[c])) :
            LET part == Parts(Components(s)[c])[i]
            IN part.k = "ph" /\ NumericText(part.t) /\ ~ValidNumeric(part.t)

\* a component of literal text without braces and non-empty placeholders
\* that are a name or well-formed numbers
WellFormedPart(part) ==
    \/ part.k = "lit" /\ \A i \in 1..Len(part.t) : part.t[i] \notin {"{", "}"}
    \/ part.k = "ph" /\ part.t # <<>> /\ (NumericText(part.t) => ValidNumeric(part.t))

WellFormed(c) == Parts(c) # <<>> /\ \A i \in 1..Len(Parts(c)) : WellFormedPart(Parts(c)[i])

\* the node of a well-formed part: the literal text, or the placeholder
\* holding exactly the text between the braces
NodeOf(part) ==
    IF part.k = "lit" THEN literal(part.t)
    ELSE IF ~NumericText(part.t) THEN fragment(part.t)
    ELSE LET x == IndexByte(part.t, ":")
         IN IF x < 0 THEN index(Atoi(part.t).n)
            ELSE slice(Atoi(Slice(part.t, 0, x)).n, Atoi(Slice(part.t, x + 1, Len(part.t))).n)

ExpectedComponent(c) ==
    LET nodes == [i \in 1..Len(Parts(c)) |-> NodeOf(Parts(c)[i])]
    IN IF Len(nodes) = 1 THEN nodes[1] ELSE compound(nodes)

\* C7: every template with an empty placeholder "{}" in some component, at
\* any position of the component, is rejected with a parse error and no
\* tree is returned.
C7_EmptyPlaceholderRejected ==
    (op = "Set" /\ HasEmptyPlaceholder(str)) => (ret.kind = "err" /\ p = Nil)

\* C8: a template with a placeholder that starts with a digit or '-' and is
\* neither a signed integer nor two signed integers around one ':' makes
\* ParseResolver return an error and no tree.
C8_MalformedNumericRejected ==
    (op = "Set" /\ HasMalformedNumeric(str)) => (ret.kind = "err" /\ p = Nil)

\* C9: a template whose components are all made of brace-free literal text
\* and non-empty well-formed placeholders parses, and each component
\* yields its literal and placeholder nodes in order, in a compound when
\* there are several, whatever the lengths of the literals and
\* placeholders.
C9_WellFormedComponentsParse ==
    (op = "Set" /\ str # <<>> /\ \A c \in 1..Len(Components(str)) : WellFormed(Components(str)[c]))
        => /\ ret.kind = "ok"
           /\ p = path([c \in 1..Len(Components(str)) |-> ExpectedComponent(Components(str)[c])])

\* --------------------------------------------- resolvers (SpecResolve)

\* C2: resolution never fails: whatever template was accepted and whatever
\* the record, Resolve returns a string.
C2_ResolveNeverFails == (op = "Resolve" /\ p # Nil) => ret.kind = "ok"

\* the held tree is the single placeholder of the template {n} or {a:b}
IsIndex == p.type = "path" /\ Len(p.rs) = 1 /\ p.rs[1].type = "index"

IsSlice == p.type = "path" /\ Len(p.rs) = 1 /\ p.rs[1].type = "slice"

\* a slice bound brought into [0, count]: a negative bound counts from the
\* end
Bound(v, count) ==
    LET w == IF v < 0 THEN v + count ELSE v
    IN IF w < 0 THEN 0 ELSE IF w > count THEN count ELSE w

\* C4: {n} gives segment n for 0 <= n < count, segment count+n for
\* -count <= n < 0, and the empty string for every other n.
C4_IndexAddressesSegments ==
    (op = "Resolve" /\ IsIndex) =>
        LET s     == Segments(dat.File)
            count == Len(s)
            n     == p.rs[1].index
        IN ret = Ok(IF 0 <= n /\ n < count THEN s[n + 1]
                    ELSE IF -count <= n /\ n < 0 THEN s[count + n + 1]
                    ELSE <<>>)

\* C5: {a:b} whose bounds normalise to the same position gives the single
\* segment at that position, for every pair of bounds.
C5_EqualBoundsGiveOneSegment ==
    (op = "Resolve" /\ IsSlice) =>
        LET s     == Segments(dat.File)
            a     == Bound(p.rs[1].begin, Len(s))
            b     == Bound(p.rs[1].end, Len(s))
        IN a = b => (ret.kind = "ok" /\ (a < Len(s) => ret.r = s[a + 1]))

\* C6: {a:b} whose bounds normalise to a' # b' gives the segments
\* a' .. b'-1 joined with '/' when a' < b' and the empty string when
\* a' > b'.
C6_SliceJoinsSegments ==
    (op = "Resolve" /\ IsSlice) =>
        LET s     == Segments(dat.File)
            a     == Bound(p.rs[1].begin, Len(s))
            b     == Bound(p.rs[1].end, Len(s))
        IN a # b => ret = Ok(IF a < b THEN JoinSep(SubSeq(s, a + 1, b)) ELSE <<>>)

\* a slice of two segments or more, one bound counted from the end
C6_Witness ==
    /\ op = "Resolve"
    /\ IsSlice
    /\ p.rs[1].begin = 0
    /\ p.rs[1].end = -1
    /\ Len(Segments(dat.File)) = 3
    /\ ret = Ok(<<"a", "/", "b">>)

\* what the children of the held path-join resolve to
ChildResults == [j \in 1..Len(p.rs) |-> componentResolve(p.rs[j], dat)]

ChildStrings == [j \in 1..Len(p.rs) |-> ChildResults[j].r]

\* a string of ordinary segments: none empty, "." or ".."
Ordinary(t) ==
    \A i \in 1..Len(Split(t)) : Split(t)[i] \notin {<<>>, <<".">>, <<".", ".">>}

\* C10 as stated: the path-join resolves to its children's strings joined
\* with '/', whatever they are.
C10_PathJoinsAllChildren ==
    (op = "Resolve" /\ p.type = "path" /\ \A j \in 1..Len(p.rs) : ChildResults[j].kind = "ok")
        => ret = Ok(JoinSep(ChildStrings))

\* C10 as amended: the path-join resolves to filepath.Join of its
\* children's strings in template order: the children that resolve to the
\* empty string are left out, the others are joined with '/' and the result
\* is cleaned, so that it is the plain join of the non-empty strings when
\* they are made of ordinary segments; a child that panics makes the
\* path-join panic.
C10_PathJoinsNonEmptyChildren ==
    (op = "Resolve" /\ p.type = "path") =>
        IF \E j \in 1..Len(p.rs) : ChildResults[j].kind # "ok" THEN ret = Panic
        ELSE LET kept == SelectSeq(ChildStrings, LAMBDA t : t # <<>>)
             IN /\ ret.kind = "ok"
                /\ kept = <<>> => ret.r = <<>>
                /\ kept # <<>> => ret.r = Clean(JoinSep(kept))
                /\ (\A j \in 1..Len(kept) : Ordinary(kept[j])) => ret.r = JoinSep(kept)

\* two components, the first resolves to the empty string and is left out
C10_Witness ==
    /\ op = "Resolve"
    /\ p.type = "path"
    /\ Len(p.rs) = 2
    /\ ChildResults[1] = Ok(<<>>)
    /\ ChildResults[2] = Ok(<<"b", "/", "c">>)
    /\ ret = Ok(<<"b", "/", "c">>)

====
